---------------------------- MODULE Spec2Model ----------------------------
(***************************************************************************)
(* Model of the numerical core of the influenza vaccination dashboard      *)
(* (src/DataVizProject/utils/prep.py, called from src/DataVizProject/      *)
(* app.py): run_sir, sir_avoided_for_params, sir_sensitivity,              *)
(* make_time_series, compute_region_timeseries and compute_scenarios.      *)
(*                                                                         *)
(* Numbers.  The code computes in IEEE doubles.  A double is modelled as a *)
(* pair <<n, d>>: the exact rational n/d in lowest terms when d > 0, and   *)
(* the non-finite values +inf = <<1,0>>, -inf = <<-1,0>>, NaN = <<0,0>>.   *)
(* The operations follow IEEE (inf - inf = NaN, x/0 = +-inf, every         *)
(* comparison with NaN is false) but do not round: the model is the        *)
(* code's arithmetic up to rounding error.  Python raises                  *)
(* ZeroDivisionError where a numpy scalar returns inf/NaN; that is decided *)
(* where the division is made (SirRaises).                                 *)
(*                                                                         *)
(* Three specifications share the variables:                               *)
(*   SpecSIR   run_sir called with Python numbers;                         *)
(*   SpecTS    make_time_series, compute_region_timeseries and             *)
(*             compute_scenarios on a table of dose records;               *)
(*   SpecSens  sir_sensitivity as app.py calls it, call after call.        *)
(***************************************************************************)
EXTENDS Integers, Sequences, FiniteSets, TLC

VARIABLES
    pc,             \* position of the running function
    args,           \* run_sir: its arguments N, I0, R0, gamma, days
    t, S, I, R,     \* run_sir: loop counter and compartments
    data,           \* run_sir: the rows appended so far
    df,             \* the dose records handed to the aggregators
    ts,             \* make_time_series: the DailySeries returned
    regional_ts,    \* compute_region_timeseries: the rows returned
    scen,           \* compute_scenarios: its arguments
    todo,           \* compute_scenarios: boosts of sorted(set(boosts)) left
    results,        \* compute_scenarios: the rows appended so far
    sens,           \* sir_sensitivity: its arguments
    rng,            \* sir_sensitivity: state of the generator in use
    samples,        \* sir_sensitivity: zip(R0_samples, gamma_samples) left
    all_runs,       \* sir_sensitivity: the avoided column of each run so far
    out,            \* sir_sensitivity: the band returned
    calls           \* every finished sir_sensitivity call: arguments, band

vars == <<pc, args, t, S, I, R, data, df, ts, regional_ts, scen, todo,
          results, sens, rng, samples, all_runs, out, calls>>

sirVars == <<args, t, S, I, R, data>>
tsVars == <<df, ts, regional_ts, scen, todo, results>>
sensVars == <<sens, rng, samples, all_runs, out, calls>>

\* Value of a variable the running specification does not use.
Idle == <<>>

TsIdle ==
    /\ df = Idle /\ ts = Idle /\ regional_ts = Idle /\ scen = Idle
    /\ todo = Idle /\ results = Idle

SensIdle ==
    /\ sens = Idle /\ rng = Idle /\ samples = Idle /\ all_runs = Idle
    /\ out = Idle /\ calls = Idle

SirIdle ==
    /\ args = Idle /\ t = Idle /\ S = Idle /\ I = Idle /\ R = Idle
    /\ data = Idle

---------------------------------------------------------------------------
(* Doubles as exact rationals with IEEE non-finite values.                 *)

Abs(x) == IF x < 0 THEN -x ELSE x

Sgn(x) == IF x < 0 THEN -1 ELSE IF x > 0 THEN 1 ELSE 0

RECURSIVE GCD(_, _)
GCD(a, b) == IF b = 0 THEN a ELSE GCD(b, a % b)

\* n/d in lowest terms with a positive denominator; n/0 is +-inf or NaN.
Norm(n, d) ==
    IF d = 0 THEN <<Sgn(n), 0>>
    ELSE LET g == GCD(Abs(n), Abs(d))
             s == IF d < 0 THEN -1 ELSE 1
         IN  <<(s * n) \div g, (s * d) \div g>>

Rat(n) == <<n, 1>>
Frac(n, d) == Norm(n, d)

NaN == <<0, 0>>
PosInf == <<1, 0>>
NegInf == <<-1, 0>>

IsNaN(x) == x = NaN
IsFinite(x) == x[2] > 0

RNeg(x) == <<-x[1], x[2]>>

RAdd(x, y) ==
    IF IsNaN(x) \/ IsNaN(y) THEN NaN
    ELSE IF ~IsFinite(x) /\ ~IsFinite(y) THEN (IF x = y THEN x ELSE NaN)
    ELSE IF ~IsFinite(x) THEN x
    ELSE IF ~IsFinite(y) THEN y
    ELSE LET g == GCD(x[2], y[2])
             l == (x[2] \div g) * y[2]
         IN  Norm(x[1] * (l \div x[2]) + y[1] * (l \div y[2]), l)

RSub(x, y) == RAdd(x, RNeg(y))

RMul(x, y) ==
    IF IsNaN(x) \/ IsNaN(y) THEN NaN
    ELSE IF ~IsFinite(x) \/ ~IsFinite(y)
         THEN <<Sgn(x[1]) * Sgn(y[1]), 0>>
    ELSE LET g1 == GCD(Abs(x[1]), y[2])
             g2 == GCD(Abs(y[1]), x[2])
         IN  Norm((x[1] \div g1) * (y[1] \div g2),
                  (x[2] \div g2) * (y[2] \div g1))

\* x / y of two doubles, as numpy computes it: x/0 is +-inf, 0/0 is NaN.
RDiv(x, y) ==
    IF IsNaN(x) \/ IsNaN(y) THEN NaN
    ELSE IF ~IsFinite(y) THEN (IF IsFinite(x) THEN Rat(0) ELSE NaN)
    ELSE IF y[1] = 0 THEN <<Sgn(x[1]), 0>>
    ELSE IF ~IsFinite(x) THEN <<Sgn(x[1]) * Sgn(y[1]), 0>>
    ELSE RMul(x, <<Sgn(y[1]) * y[2], Abs(y[1])>>)

\* x <= y and x < y; false when either side is NaN.
RLeq(x, y) ==
    /\ ~IsNaN(x) /\ ~IsNaN(y)
    /\ IF IsFinite(x) /\ IsFinite(y)
       THEN RSub(y, x)[1] >= 0
       ELSE x = y \/ x = NegInf \/ y = PosInf

RLt(x, y) == RLeq(x, y) /\ x # y

RMax(x, y) == IF RLt(x, y) THEN y ELSE x

\* int(x): truncation toward zero of a finite double.
RTrunc(x) ==
    IF x[1] >= 0 THEN x[1] \div x[2] ELSE -((-x[1]) \div x[2])

\* np.ceil(x) of a finite double.
RCeil(x) == -((-x[1]) \div x[2])

---------------------------------------------------------------------------
(* run_sir                                                                 *)

MaxDays == 2

NSet == {0, 2, 4, 5}
I0Set == {0, 1, 2, 5}
R0Set == {Frac(1, 2), Rat(1), Rat(2), Rat(4)}
GammaSet == {Frac(1, 2), Rat(1), Rat(2)}

\* SirStep without the division by N.
SirStepUndivided(N, s, i, r, beta, gamma) ==
    LET new_inf == RMul(RMul(beta, s), i)
        new_rec == RMul(gamma, i)
    IN  [S |-> RSub(s, new_inf),
         I |-> RSub(RAdd(i, new_inf), new_rec),
         R |-> RAdd(r, new_rec)]

\* One pass of the loop body: the compartments after day t.
SirStep(N, s, i, r, beta, gamma) ==
    LET new_inf == RDiv(RMul(RMul(beta, s), i), N)
        new_rec == RMul(gamma, i)
    IN  [S |-> RSub(s, new_inf),
         I |-> RSub(RAdd(i, new_inf), new_rec),
         R |-> RAdd(r, new_rec)]

\* beta * S * I / N raises ZeroDivisionError when N is 0 and beta is a
\* Python float; with a numpy scalar beta it evaluates to inf or NaN.
SirRaises(N, np) == N = Rat(0) /\ ~np

Beta(R0, gamma) == RMul(R0, gamma)

\* A call of run_sir.  np tells whether R0 or gamma is a numpy scalar (as
\* when sir_sensitivity passes its samples) or both are Python floats.
InitSIR ==
    /\ args \in [N : NSet, I0 : I0Set, R0 : R0Set, gamma : GammaSet,
                 days : 1..MaxDays, np : BOOLEAN]
    /\ pc = "run_sir"
    /\ t = 0
    /\ S = Rat(args.N - args.I0)
    /\ I = Rat(args.I0)
    /\ R = Rat(0)
    /\ data = <<>>
    /\ TsIdle
    /\ SensIdle

SirLoop ==
    /\ pc = "run_sir"
    /\ t < args.days
    /\ ~SirRaises(Rat(args.N), args.np)
    /\ LET nx == SirStep(Rat(args.N), S, I, R, Beta(args.R0, args.gamma),
                         args.gamma)
       IN  /\ S' = nx.S
           /\ I' = nx.I
           /\ R' = nx.R
           /\ data' = Append(data, [day |-> t, S |-> nx.S, I |-> nx.I,
                                    R |-> nx.R])
    /\ t' = t + 1
    /\ UNCHANGED <<pc, args, tsVars, sensVars>>

SirZeroDivision ==
    /\ pc = "run_sir"
    /\ t < args.days
    /\ SirRaises(Rat(args.N), args.np)
    /\ pc' = "raised"
    /\ UNCHANGED <<sirVars, tsVars, sensVars>>

SirReturn ==
    /\ pc = "run_sir"
    /\ t = args.days
    /\ pc' = "done"
    /\ UNCHANGED <<sirVars, tsVars, sensVars>>

NextSIR == SirLoop \/ SirZeroDivision \/ SirReturn

SpecSIR == InitSIR /\ [][NextSIR]_vars

---------------------------------------------------------------------------
(* make_time_series and compute_region_timeseries                          *)

MaxRecs == 2

\* Dates are days since 1970-01-01, the origin of pandas timestamps: from
\* 2024-10-15, 2024-10-16 and 2024-10-30, a span longer than the 14-day
\* tail.
DateSet == {20011, 20012, 20026}
DoseSet == {0, 420, 840}
CodeSet == {11, 24}

\* rolling(7, min_periods=1)
Window == 7

Min(a, b) == IF a < b THEN a ELSE b
Max(a, b) == IF a < b THEN b ELSE a

SetMin(X) == CHOOSE x \in X : \A y \in X : x <= y
SetMax(X) == CHOOSE x \in X : \A y \in X : y <= x

\* A table of dose records in date order, as the CSV lists them: date,
\* valeur (doses), jour (day index of the campaign) and region code.
DfSet ==
    {[k \in DOMAIN d |-> [date |-> d[k].date, valeur |-> d[k].valeur,
                          jour |-> d[k].date, code |-> d[k].code]] :
        d \in {e \in UNION {[1..n -> [date : DateSet, valeur : DoseSet,
                                      code : CodeSet]] : n \in 0..MaxRecs} :
                  \A k \in 1..(Len(e) - 1) : e[k].date <= e[k + 1].date}}

\* Sum of a column over the records ks of rows.
RECURSIVE SumOver(_, _, _)
SumOver(rows, ks, col) ==
    IF ks = {} THEN 0
    ELSE LET k == SetMin(ks)
         IN  rows[k][col] + SumOver(rows, ks \ {k}, col)

\* df.groupby("date")[col].sum() at date d (d is a date of df).
GroupSum(rows, d, col) ==
    SumOver(rows, {k \in DOMAIN rows : rows[k].date = d}, col)

\* .reindex(full_dates).ffill(): the value of the last date of rows at or
\* before d (the first date of full_dates is a date of rows).
RECURSIVE Ffill(_, _, _)
Ffill(rows, d, col) ==
    IF \E k \in DOMAIN rows : rows[k].date = d
    THEN GroupSum(rows, d, col)
    ELSE Ffill(rows, d - 1, col)

\* Sum of f[k] for k in lo..hi, in doubles.
RECURSIVE RSum(_, _, _)
RSum(f, lo, hi) ==
    IF hi < lo THEN Rat(0) ELSE RAdd(RSum(f, lo, hi - 1), f[hi])

\* series.rolling(w, min_periods=1).mean() at position k.
RollingMean(f, k, w) ==
    LET lo == Max(1, k - w + 1)
    IN  RDiv(RSum(f, lo, k), Rat(k - lo + 1))

\* The DailySeries make_time_series returns for a table with records.
TimeSeries(rows) ==
    LET first == SetMin({rows[k].date : k \in DOMAIN rows})
        last == SetMax({rows[k].date : k \in DOMAIN rows})
        n == last - first + 1
        dose == [k \in 1..n |-> Rat(Ffill(rows, first + k - 1, "valeur"))]
    IN  [k \in 1..n |->
            [date |-> first + k - 1,
             dose |-> dose[k],
             day_count |-> Rat(Ffill(rows, first + k - 1, "jour")),
             rolling_7d_doses |-> RollingMean(dose, k, Window),
             cum_doses |-> RSum(dose, 1, k)]]

\* The rows compute_region_timeseries builds for the records of one region:
\* a contiguous date range with missing days filled with 0.
RegionRows(rows, region) ==
    LET ks == {k \in DOMAIN rows : rows[k].code = region}
        first == SetMin({rows[k].date : k \in ks})
        last == SetMax({rows[k].date : k \in ks})
        n == last - first + 1
        dose == [k \in 1..n |->
                    Rat(SumOver(rows, {j \in ks :
                                  rows[j].date = first + k - 1}, "valeur"))]
    IN  [k \in 1..n |->
            [date |-> first + k - 1,
             region_code |-> region,
             dose |-> dose[k],
             rolling_7d_doses |-> RollingMean(dose, k, Window)]]

\* pd.concat of the regions' rows, in the order groupby yields the groups
\* (sorted by region code).
RECURSIVE ConcatRegions(_, _)
ConcatRegions(rows, regions) ==
    IF regions = {} THEN <<>>
    ELSE LET r == SetMin(regions)
         IN  RegionRows(rows, r) \o ConcatRegions(rows, regions \ {r})

NotCalled == [status |-> "none", rows |-> <<>>]
Raised == [status |-> "raised", rows |-> <<>>]
Returned(rows) == [status |-> "ok", rows |-> rows]

\* make_time_series(df): pd.date_range(NaT, NaT) raises ValueError for a
\* table without records.
make_time_series(rows) ==
    IF rows = <<>> THEN Raised ELSE Returned(TimeSeries(rows))

\* compute_region_timeseries(df_doses): no group, no rows, an empty frame.
compute_region_timeseries(rows) ==
    Returned(ConcatRegions(rows, {rows[k].code : k \in DOMAIN rows}))

\* The three functions are called on the same table in the order of app.py
\* (get_data, then the scenario table), each whatever the one before did.
InitTS ==
    /\ df \in DfSet
    /\ pc = "idle"
    /\ ts = NotCalled
    /\ regional_ts = NotCalled
    /\ results = NotCalled
    /\ scen = Idle
    /\ todo = Idle
    /\ SirIdle
    /\ SensIdle

CallMakeTimeSeries ==
    /\ pc = "idle"
    /\ ts = NotCalled
    /\ ts' = make_time_series(df)
    /\ UNCHANGED <<pc, df, regional_ts, scen, todo, results, sirVars,
                   sensVars>>

CallRegionTimeseries ==
    /\ pc = "idle"
    /\ ts # NotCalled
    /\ regional_ts = NotCalled
    /\ regional_ts' = compute_region_timeseries(df)
    /\ UNCHANGED <<pc, df, ts, scen, todo, results, sirVars, sensVars>>


---------------------------------------------------------------------------
(* compute_scenarios                                                       *)

\* boosted_daily.tail(14)
TailLen == 14

BoostLists == {<<0, 25, 50>>, <<50, 0, 50>>, <<25>>}
TargetPctSet == {75}
PopulationSet == {1400, 4200, 67000000}

\* sorted(set(boosts))
RECURSIVE SortedSet(_)
SortedSet(X) ==
    IF X = {} THEN <<>>
    ELSE LET m == SetMin(X) IN <<m>> \o SortedSet(X \ {m})

Range(f) == {f[k] : k \in DOMAIN f}

\* BoostFactor with the sign of the boost reversed.
BoostFactorReversed(b) == RSub(Rat(1), Frac(b, 100))

\* 1 + b / 100
BoostFactor(b) == RAdd(Rat(1), Frac(b, 100))

\* ts["rolling_7d_doses"] * (1 + b / 100)
BoostedDaily(series, b) ==
    [k \in DOMAIN series |-> RMul(series[k].rolling_7d_doses, BoostFactor(b))]

\* boosted_daily.cumsum()
CumSum(f) == [k \in DOMAIN f |-> RSum(f, 1, k)]

\* population * target_pct / 100
Target(population, target_pct) == RMul(Rat(population), Frac(target_pct, 100))

\* boosted_daily.tail(14).mean()
MeanRecent(boosted_daily) ==
    LET n == Len(boosted_daily)
        lo == Max(1, n - TailLen + 1)
    IN  RDiv(RSum(boosted_daily, lo, n), Rat(n - lo + 1))

NotReached == [reached |-> FALSE]
ReachedOn(d) == [reached |-> TRUE, date |-> d]
OutOfBounds == [reached |-> FALSE, raised |-> TRUE]

\* The last whole day of pd.Timestamp and the most whole days of
\* pd.Timedelta: both hold 2^63 - 1 nanoseconds, 106751 days and a part.
TimestampMaxDay == 106751

\* ts.index[-1] + pd.Timedelta(days=days_needed) raises when the Timedelta
\* or the resulting Timestamp is out of bounds.
TimedeltaRaises(last, days_needed) ==
    \/ days_needed > TimestampMaxDay
    \/ last + days_needed > TimestampMaxDay

\* The branch cum_bo.iloc[-1] < target: the last date plus
\* int(np.ceil((target - cum_bo.iloc[-1]) / mean_recent)) days, NaT (shown
\* as "Not reached") unless mean_recent > 0, or an exception of pandas when
\* the date is out of bounds.
Extrapolate(series, cum_bo, boosted_daily, target) ==
    LET n == Len(series)
        mean_recent == MeanRecent(boosted_daily)
        days_needed == RCeil(RDiv(RSub(target, cum_bo[n]), mean_recent))
    IN  IF RLt(Rat(0), mean_recent)
        THEN IF TimedeltaRaises(series[n].date, days_needed)
             THEN OutOfBounds
             ELSE ReachedOn(series[n].date + days_needed)
        ELSE NotReached

\* The other branch: cum_bo[cum_bo >= target].index.min()
FirstHit(series, cum_bo, target) ==
    ReachedOn(SetMin({series[k].date : k \in {j \in DOMAIN series :
                                              RLeq(target, cum_bo[j])}}))

\* ExtraVaccinated without the floor at zero.
ExtraVaccinatedUnfloored(extra_vax) == RTrunc(extra_vax)

\* int(max(0, extra_vax))
ExtraVaccinated(extra_vax) == RTrunc(RMax(Rat(0), extra_vax))

\* int(max(0, extra_vax) * 0.0005)
AvoidedEst(extra_vax) == RTrunc(RMul(RMax(Rat(0), extra_vax), Frac(5, 10000)))

\* One pass of the loop over the boosts: the row appended for boost b.
ScenarioRow(series, last_cum, b, target_pct, population) ==
    LET n == Len(series)
        boosted_daily == BoostedDaily(series, b)
        cum_bo == CumSum(boosted_daily)
        target == Target(population, target_pct)
        date_hit == IF RLt(cum_bo[n], target)
                    THEN Extrapolate(series, cum_bo, boosted_daily, target)
                    ELSE FirstHit(series, cum_bo, target)
        extra_vax == RSub(cum_bo[n], last_cum)
    IN  [boost_pct |-> b,
         date_hit |-> date_hit,
         extra_vaccinated |-> ExtraVaccinated(extra_vax),
         avoided_est |-> AvoidedEst(extra_vax)]

\* compute_scenarios is called with the series make_time_series returned or
\* with an empty DailySeries; ts["cum_doses"].iloc[-1] raises IndexError on
\* an empty series.
CallComputeScenarios ==
    /\ pc = "idle"
    /\ regional_ts # NotCalled
    /\ results = NotCalled
    /\ \E series \in {<<>>} \cup (IF ts.status = "ok" THEN {ts.rows} ELSE {}),
          boosts \in BoostLists, target_pct \in TargetPctSet,
          population \in PopulationSet :
          /\ scen' = [ts |-> series, boosts |-> boosts,
                      target_pct |-> target_pct, population |-> population]
          /\ IF series = <<>>
             THEN /\ results' = Raised
                  /\ UNCHANGED <<pc, todo>>
             ELSE /\ results' = Returned(<<>>)
                  /\ todo' = SortedSet(Range(boosts))
                  /\ pc' = "compute_scenarios"
    /\ UNCHANGED <<df, ts, regional_ts, sirVars, sensVars>>

\* The row of the next boost of the loop.
NextRow ==
    ScenarioRow(scen.ts, scen.ts[Len(scen.ts)].cum_doses, Head(todo),
                scen.target_pct, scen.population)

ScenLoop ==
    /\ pc = "compute_scenarios"
    /\ todo # <<>>
    /\ NextRow.date_hit # OutOfBounds
    /\ results' = Returned(Append(results.rows, NextRow))
    /\ todo' = Tail(todo)
    /\ UNCHANGED <<pc, df, ts, regional_ts, scen, sirVars, sensVars>>

\* Line 96 raises: the call ends with the exception and returns no table.
ScenOutOfBounds ==
    /\ pc = "compute_scenarios"
    /\ todo # <<>>
    /\ NextRow.date_hit = OutOfBounds
    /\ results' = Raised
    /\ pc' = "idle"
    /\ UNCHANGED <<df, ts, regional_ts, scen, todo, sirVars, sensVars>>

ScenReturn ==
    /\ pc = "compute_scenarios"
    /\ todo = <<>>
    /\ pc' = "idle"
    /\ UNCHANGED <<df, ts, regional_ts, scen, todo, results, sirVars,
                   sensVars>>

NextTS ==
    \/ CallMakeTimeSeries
    \/ CallRegionTimeseries
    \/ CallComputeScenarios
    \/ ScenLoop
    \/ ScenOutOfBounds
    \/ ScenReturn

SpecTS == InitTS /\ [][NextTS]_vars


---------------------------------------------------------------------------
(* sir_avoided_for_params and sir_sensitivity                              *)

MaxRuns == 2
MaxCalls == 2

N_total == 67000000
I0 == 5000
Seed == 42

\* Hospitalisations per infected: the factor 0.05.
HospRatio == Frac(5, 100)

\* Lower limits of the sampled R0 and gamma: max(0.1, r0), max(0.01, g).
R0Floor == Frac(1, 10)
GammaFloor == Frac(1, 100)

\* Standard deviations of the samples: 0.2 and gamma_center * 0.15.
R0Sigma == Frac(2, 10)
GammaSigmaRatio == Frac(15, 100)

\* Coverage fractions.  The unvaccinated share is 0, 1 or 2 parts of 2^14,
\* which keeps the populations and every intermediate product of one SIR
\* day within 32-bit integers: the populations are 0, 4089 and 8178.
Cov(u) == RSub(Rat(1), Frac(u, 16384))
CoveragePairs ==
    {[baseline_cov |-> Cov(2), boosted_cov |-> Cov(1)],
     [baseline_cov |-> Cov(2), boosted_cov |-> Cov(0)],
     [baseline_cov |-> Cov(1), boosted_cov |-> Cov(0)],
     [baseline_cov |-> Cov(0), boosted_cov |-> Cov(0)]}

\* Central R0 and gamma of a call.
CenterSet ==
    {[R0_center |-> Frac(13, 10), gamma_center |-> Frac(1, 5)],
     [R0_center |-> Frac(1, 4), gamma_center |-> Frac(1, 200)]}

\* The horizon: one day (the products of a second day exceed 32 bits).
SensDaysSet == {1}

\* int(N_total * (1 - cov))
Population(cov) == RTrunc(RMul(Rat(N_total), RSub(Rat(1), cov)))

\* np.random.default_rng(seed): a generator that has drawn nothing yet.
Unseeded == [seed |-> -1, draws |-> 0]
default_rng(seed) == [seed |-> seed, draws |-> 0]

\* One generator shared by every call, seeded once.
SharedGenerator == IF rng.seed = Seed THEN rng ELSE default_rng(Seed)

\* The generator whose samples a call uses: a fresh default_rng(42).
CallGenerator == default_rng(Seed)

\* The stream of standard normal deviates of a generator seeded with 42,
\* to one or two decimals; the stream is a function of the seed and of the
\* number of deviates drawn before, and of nothing else.
NormalStream ==
    <<Frac(3, 10), Rat(-1), Frac(3, 4), Frac(9, 10), Rat(-2), Frac(-13, 10),
      Frac(1, 10), Frac(-3, 10)>>

StandardNormal(g, k) == NormalStream[((g.draws + k - 1) % Len(NormalStream)) + 1]

\* rng.normal(loc, scale, n): the n samples, and the generator afterwards.
Normal(g, loc, scale, n) ==
    [k \in 1..n |-> RAdd(loc, RMul(scale, StandardNormal(g, k)))]

Advance(g, n) == [g EXCEPT !.draws = @ + n]

\* max(floor, x) of Python: x only when x > floor, else the literal.
Clamp(floor, x) == IF RLt(floor, x) THEN x ELSE floor

\* Whether R0 * gamma is a numpy scalar: unless both factors are the
\* literals of the two max() calls.
IsNumpy(r0, g) == RLt(R0Floor, r0) \/ RLt(GammaFloor, g)

\* run_sir as a function: the rows of days 0 .. days - 1.
RECURSIVE SirRows(_, _, _, _, _, _, _)
SirRows(N, s, i, r, R0, gamma, days) ==
    IF days = 0 THEN <<>>
    ELSE LET nx == SirStep(Rat(N), s, i, r, Beta(R0, gamma), gamma)
         IN  <<nx>> \o SirRows(N, nx.S, nx.I, nx.R, R0, gamma, days - 1)

run_sir(N, i0, R0, gamma, days) ==
    SirRows(N, Rat(N - i0), Rat(i0), Rat(0), R0, gamma, days)

\* The avoided column sir_avoided_for_params returns.
sir_avoided_for_params(baseline_cov, boosted_cov, R0, gamma, days) ==
    LET base_N == Population(baseline_cov)
        boost_N == Population(boosted_cov)
        df_b == run_sir(base_N, I0, R0, gamma, days)
        df_bo == run_sir(boost_N, I0, R0, gamma, days)
    IN  [d \in 1..days |->
            RSub(RMul(df_b[d].I, HospRatio), RMul(df_bo[d].I, HospRatio))]

\* Whether one of the two run_sir calls raises ZeroDivisionError.
AvoidedRaises(baseline_cov, boosted_cov, np, days) ==
    /\ days > 0
    /\ \/ SirRaises(Rat(Population(baseline_cov)), np)
       \/ SirRaises(Rat(Population(boosted_cov)), np)

\* The values of a row in ascending order.
RECURSIVE Sorted(_)
Sorted(vals) ==
    IF vals = <<>> THEN <<>>
    ELSE LET k == CHOOSE a \in DOMAIN vals :
                     \A b \in DOMAIN vals : RLeq(vals[a], vals[b])
         IN  <<vals[k]>> \o
             Sorted([j \in 1..(Len(vals) - 1) |->
                        IF j < k THEN vals[j] ELSE vals[j + 1]])

SelectSeqNotNaN(vals) == SelectSeq(vals, LAMBDA v : ~IsNaN(v))

\* a + (b - a) * frac
Lerp(a, b, frac) == RAdd(a, RMul(RSub(b, a), frac))

\* The q-quantile of a row with linear interpolation; NaN is skipped, and a
\* row of NaN has the quantile NaN.
Quantile(vals, q) ==
    LET v == Sorted(SelectSeqNotNaN(vals))
        n == Len(v)
    IN  IF n = 0 THEN NaN
        ELSE LET pos == RMul(q, Rat(n - 1))
                 lo == pos[1] \div pos[2]
                 hi == Min(lo + 1, n - 1)
             IN  Lerp(v[lo + 1], v[hi + 1], RSub(pos, Rat(lo)))

\* The band: per day the 0.10, 0.50 and 0.90 quantiles over the runs.
Band(runs, days) ==
    [d \in 1..days |->
        LET row == [k \in DOMAIN runs |-> runs[k][d]]
        IN  [day |-> d - 1,
             avoided_p10 |-> Quantile(row, Frac(10, 100)),
             avoided_median |-> Quantile(row, Frac(50, 100)),
             avoided_p90 |-> Quantile(row, Frac(90, 100))]]

InitSens ==
    /\ pc = "idle"
    /\ sens = Idle
    /\ rng = Unseeded
    /\ samples = <<>>
    /\ all_runs = <<>>
    /\ out = NotCalled
    /\ calls = <<>>
    /\ SirIdle
    /\ TsIdle

\* Entry of sir_sensitivity: the generator and the two sample arrays.
SensCall ==
    /\ pc = "idle"
    /\ Len(calls) < MaxCalls
    /\ \E cov \in CoveragePairs, c \in CenterSet, days \in SensDaysSet,
          runs \in 1..MaxRuns :
          LET g == CallGenerator
              R0_samples == Normal(g, c.R0_center, R0Sigma, runs)
              g2 == Advance(g, runs)
              gamma_samples ==
                  Normal(g2, c.gamma_center,
                         RMul(c.gamma_center, GammaSigmaRatio), runs)
          IN  /\ sens' = [baseline_cov |-> cov.baseline_cov,
                          boosted_cov |-> cov.boosted_cov,
                          R0_center |-> c.R0_center,
                          gamma_center |-> c.gamma_center,
                          days |-> days, runs |-> runs]
              /\ samples' = [k \in 1..runs |->
                                <<R0_samples[k], gamma_samples[k]>>]
              /\ rng' = Advance(g2, runs)
    /\ all_runs' = <<>>
    /\ out' = NotCalled
    /\ pc' = "sir_sensitivity"
    /\ UNCHANGED <<calls, sirVars, tsVars>>

NextSample == samples[Len(all_runs) + 1]

SensLoop ==
    /\ pc = "sir_sensitivity"
    /\ Len(all_runs) < Len(samples)
    /\ LET r0 == NextSample[1]
           g == NextSample[2]
       IN  /\ ~AvoidedRaises(sens.baseline_cov, sens.boosted_cov,
                             IsNumpy(r0, g), sens.days)
           /\ all_runs' = Append(all_runs,
                  sir_avoided_for_params(sens.baseline_cov, sens.boosted_cov,
                                         Clamp(R0Floor, r0),
                                         Clamp(GammaFloor, g), sens.days))
    /\ UNCHANGED <<pc, sens, rng, samples, out, calls, sirVars, tsVars>>

SensZeroDivision ==
    /\ pc = "sir_sensitivity"
    /\ Len(all_runs) < Len(samples)
    /\ AvoidedRaises(sens.baseline_cov, sens.boosted_cov,
                     IsNumpy(NextSample[1], NextSample[2]), sens.days)
    /\ out' = Raised
    /\ calls' = Append(calls, [args |-> sens, samples |-> samples,
                               out |-> Raised])
    /\ pc' = "idle"
    /\ UNCHANGED <<sens, rng, samples, all_runs, sirVars, tsVars>>

SensReturn ==
    /\ pc = "sir_sensitivity"
    /\ Len(all_runs) = Len(samples)
    /\ out' = Returned(Band(all_runs, sens.days))
    /\ calls' = Append(calls, [args |-> sens, samples |-> samples,
                               out |-> out'])
    /\ pc' = "idle"
    /\ UNCHANGED <<sens, rng, samples, all_runs, sirVars, tsVars>>

NextSens == SensCall \/ SensLoop \/ SensZeroDivision \/ SensReturn

SpecSens == InitSens /\ [][NextSens]_vars

---------------------------------------------------------------------------
(* Properties of the aggregators and of compute_scenarios (SpecTS)         *)

DfDates == {df[k].date : k \in DOMAIN df}

\* Sum of the rolling averages up to position i, and the boosted cumulative
\* series there: (1 + b/100) times that sum.
RollSum(series, i) ==
    RSum([k \in DOMAIN series |-> series[k].rolling_7d_doses], 1, i)

BoostedCumAt(series, b, i) == RMul(Frac(100 + b, 100), RollSum(series, i))

\* Mean of the boosted rate over the last 14 days (fewer if the series is
\* shorter).
BoostedMeanRecent(series, b) ==
    LET n == Len(series)
        k == Min(n, TailLen)
    IN  RDiv(RSub(BoostedCumAt(series, b, n), BoostedCumAt(series, b, n - k)),
             Rat(k))

ScenTarget == RMul(Rat(scen.population), Frac(scen.target_pct, 100))

\* The positions of the series whose boosted cumulative reaches the target.
HitPositions(series, b) ==
    {i \in DOMAIN series : RLeq(ScenTarget, BoostedCumAt(series, b, i))}

RowInRange(r) ==
    r.date_hit.reached /\ r.date_hit.date <= scen.ts[Len(scen.ts)].date

RowExtrapolated(r) ==
    r.date_hit.reached /\ r.date_hit.date > scen.ts[Len(scen.ts)].date

\* The rule of the target date in the rows of a table: the earliest
\* observed date whose boosted cumulative is >= target when there is one;
\* otherwise the last observed date plus the least whole number of days k
\* with k * mean_recent >= target - final boosted cumulative, when
\* mean_recent > 0; otherwise the "Not reached" sentinel.
RowsFollowRule(rows) ==
    \A j \in DOMAIN rows :
        LET r == rows[j]
            b == r.boost_pct
            series == scen.ts
            n == Len(series)
            hits == HitPositions(series, b)
            m == BoostedMeanRecent(series, b)
            gap == RSub(ScenTarget, BoostedCumAt(series, b, n))
        IN  IF hits # {}
            THEN /\ r.date_hit.reached
                 /\ \E i \in hits :
                       /\ r.date_hit.date = series[i].date
                       /\ \A i2 \in hits : i <= i2
            ELSE IF RLt(Rat(0), m)
            THEN /\ r.date_hit.reached
                 /\ LET k == r.date_hit.date - series[n].date
                    IN  /\ RLeq(gap, RMul(Rat(k), m))
                        /\ RLt(RMul(Rat(k - 1), m), gap)
            ELSE r.date_hit = NotReached

\* C2: compute_scenarios on a series with rows gives, for every boost, a row
\* whose date_hit follows the rule of the target date: the call does not
\* raise, and the rows it returns follow the rule.
C2_TargetDateRule ==
    (results # NotCalled /\ scen.ts # <<>>) =>
        /\ results.status = "ok"
        /\ RowsFollowRule(results.rows)

\* The rows of the calls that return follow the rule.
TargetDateRuleWhenReturned ==
    results.status = "ok" => RowsFollowRule(results.rows)

\* A call that ended at line 96 on a series with observed doses.
OutOfBoundsSeen ==
    /\ pc = "idle"
    /\ results = Raised
    /\ scen.ts # <<>>

\* The 14-day tail is shorter than the series and the two means differ.
TailCutSeen ==
    /\ pc = "idle"
    /\ results.status = "ok"
    /\ Len(scen.ts) > TailLen
    /\ \E j \in DOMAIN results.rows :
          /\ RowExtrapolated(results.rows[j])
          /\ BoostedMeanRecent(scen.ts, results.rows[j].boost_pct)
                # RDiv(BoostedCumAt(scen.ts, results.rows[j].boost_pct,
                                    Len(scen.ts)), Rat(Len(scen.ts)))

\* A finished call whose rows hold a date found inside the observed range
\* and a date found by extrapolation.
InRangeAndExtrapolatedSeen ==
    /\ pc = "idle"
    /\ results.status = "ok"
    /\ \E i, j \in DOMAIN results.rows :
          /\ RowExtrapolated(results.rows[i])
          /\ RowInRange(results.rows[j])

\* The sentinel is reached too: a series whose recent rate is zero.
NotReachedSeen ==
    /\ pc = "idle"
    /\ results.status = "ok"
    /\ \E j \in DOMAIN results.rows : results.rows[j].date_hit = NotReached

\* C3: in the rows of one call, extra_vaccinated never decreases as the
\* boost grows, and it is never negative.
C3_ExtraVaccinatedMonotone ==
    results.status = "ok" =>
        /\ \A j \in DOMAIN results.rows :
              results.rows[j].extra_vaccinated >= 0
        /\ \A i, j \in DOMAIN results.rows :
              results.rows[i].boost_pct < results.rows[j].boost_pct =>
                 results.rows[i].extra_vaccinated
                    <= results.rows[j].extra_vaccinated

\* A finished call where the boosted total of the smallest boost is below
\* the actual total (so the floor acts) and a larger boost has vaccinated
\* more.
C3_Witness ==
    /\ pc = "idle"
    /\ results.status = "ok"
    /\ Len(results.rows) >= 2
    /\ LET series == scen.ts
           n == Len(series)
           b1 == results.rows[1].boost_pct
       IN  /\ RLt(BoostedCumAt(series, b1, n), series[n].cum_doses)
           /\ results.rows[1].extra_vaccinated = 0
           /\ results.rows[Len(results.rows)].extra_vaccinated > 0

\* C4: in the rows of one call, of two boosts that both have a target date
\* the larger one has the earlier or the same date.
C4_LargerBoostNotLater ==
    results.status = "ok" =>
        \A i, j \in DOMAIN results.rows :
            /\ results.rows[i].boost_pct < results.rows[j].boost_pct
            /\ results.rows[i].date_hit.reached
            /\ results.rows[j].date_hit.reached
            => results.rows[j].date_hit.date <= results.rows[i].date_hit.date

\* The mixed case: the smaller boost reaches the target by extrapolation
\* only, the larger one inside the observed range, strictly earlier.
C4_Witness ==
    /\ pc = "idle"
    /\ results.status = "ok"
    /\ \E i, j \in DOMAIN results.rows :
          /\ results.rows[i].boost_pct < results.rows[j].boost_pct
          /\ RowExtrapolated(results.rows[i])
          /\ RowInRange(results.rows[j])
          /\ results.rows[j].date_hit.date < results.rows[i].date_hit.date

\* C7: on a table without records make_time_series and
\* compute_region_timeseries return an empty series, and on an empty
\* DailySeries compute_scenarios returns an empty result; none raises.
C7_EmptyInputIsSoft ==
    /\ (df = <<>> /\ ts # NotCalled) => ts = Returned(<<>>)
    /\ (df = <<>> /\ regional_ts # NotCalled) => regional_ts = Returned(<<>>)
    /\ (results # NotCalled /\ scen.ts = <<>> /\ pc = "idle")
          => results = Returned(<<>>)

\* C8: the index of the DailySeries holds every day from the first to the
\* last date of the table once, cum_doses on a day without records equals
\* cum_doses of the day before, and cum_doses never decreases.
C8_ForwardFillKeepsCumulative ==
    ts.status = "ok" =>
        LET rows == ts.rows
            first == SetMin(DfDates)
            last == SetMax(DfDates)
        IN  /\ Len(rows) = last - first + 1
            /\ \A k \in DOMAIN rows : rows[k].date = first + k - 1
            /\ \A k \in 2..Len(rows) :
                  /\ RLeq(rows[k - 1].cum_doses, rows[k].cum_doses)
                  /\ rows[k].date \notin DfDates
                        => rows[k].cum_doses = rows[k - 1].cum_doses


---------------------------------------------------------------------------
(* Properties of run_sir (SpecSIR)                                         *)

\* C1: every row run_sir records satisfies S + I + R = N.
C1_PopulationConserved ==
    \A k \in DOMAIN data :
        RAdd(RAdd(data[k].S, data[k].I), data[k].R) = Rat(args.N)

\* The same for the calls whose N is not zero.
PopulationConservedWhenPopulated ==
    args.N # 0 =>
        \A k \in DOMAIN data :
            RAdd(RAdd(data[k].S, data[k].I), data[k].R) = Rat(args.N)

\* A finished run with N = 0 whose rows hold values that are not finite.
NonFiniteRowSeen ==
    /\ pc = "done"
    /\ args.N = 0
    /\ \E k \in DOMAIN data : ~IsFinite(data[k].I)

\* C9 as stated: with N > 0, I0 >= 0, R0 > 0 and gamma > 0, S, I and R are
\* non-negative in every row.
C9_NonNegative ==
    (args.N > 0 /\ args.I0 >= 0 /\ RLt(Rat(0), args.R0)
        /\ RLt(Rat(0), args.gamma)) =>
        \A k \in DOMAIN data :
            /\ RLeq(Rat(0), data[k].S)
            /\ RLeq(Rat(0), data[k].I)
            /\ RLeq(Rat(0), data[k].R)

\* Inputs whose daily rates beta and gamma are at most 1 and whose initial
\* infected count fits in the population.
UnitRates ==
    /\ args.N > 0
    /\ args.I0 >= 0
    /\ args.I0 <= args.N
    /\ RLt(Rat(0), args.gamma)
    /\ RLeq(args.gamma, Rat(1))
    /\ RLt(Rat(0), RMul(args.R0, args.gamma))
    /\ RLeq(RMul(args.R0, args.gamma), Rat(1))

\* C9 (amended): with N > 0, 0 <= I0 <= N, 0 < gamma <= 1 and
\* 0 < R0 * gamma <= 1, S, I and R are non-negative in every row.
C9_NonNegativeWithinUnitRates ==
    UnitRates =>
        \A k \in DOMAIN data :
            /\ RLeq(Rat(0), data[k].S)
            /\ RLeq(Rat(0), data[k].I)
            /\ RLeq(Rat(0), data[k].R)

\* A finished run at the edge of the amended range: beta = 1, gamma = 1,
\* with infections on the last day.
C9_Witness ==
    /\ pc = "done"
    /\ UnitRates
    /\ args.gamma = Rat(1)
    /\ RMul(args.R0, args.gamma) = Rat(1)
    /\ Len(data) >= 2
    /\ RLt(data[Len(data)].S, data[Len(data) - 1].S)

---------------------------------------------------------------------------
(* Properties of sir_sensitivity (SpecSens)                                *)

BandOrdered(rows) ==
    \A d \in DOMAIN rows :
        /\ RLeq(rows[d].avoided_p10, rows[d].avoided_median)
        /\ RLeq(rows[d].avoided_median, rows[d].avoided_p90)

\* C5: on every day of a returned band,
\* avoided_p10 <= avoided_median <= avoided_p90.
C5_BandOrdered == out.status = "ok" => BandOrdered(out.rows)

\* The same for the calls whose two populations are not zero.
BandOrderedWhenPopulated ==
    (/\ out.status = "ok"
     /\ Population(sens.baseline_cov) # 0
     /\ Population(sens.boosted_cov) # 0) => BandOrdered(out.rows)

\* C6: two finished calls with the same arguments drew the same samples
\* and returned the same band.
C6_Reproducible ==
    \A i, j \in DOMAIN calls :
        calls[i].args = calls[j].args =>
            /\ calls[i].samples = calls[j].samples
            /\ calls[i].out = calls[j].out

\* Two calls with the same arguments, one after the other, that returned a
\* band of finite values with p10 below p90.
C6_Witness ==
    /\ Len(calls) >= 2
    /\ calls[1].args = calls[2].args
    /\ calls[2].out.status = "ok"
    /\ \E d \in DOMAIN calls[2].out.rows :
          /\ IsFinite(calls[2].out.rows[d].avoided_p10)
          /\ RLt(calls[2].out.rows[d].avoided_p10,
                 calls[2].out.rows[d].avoided_p90)

\* C10: the populations a call hands to run_sir for coverages in [0, 1] are
\* positive and at least the initial infected count, so the initial S is
\* not negative and the division by N is defined.
C10_PopulationsCoverI0 ==
    pc = "sir_sensitivity" =>
        \A cov \in {sens.baseline_cov, sens.boosted_cov} :
            (RLeq(Rat(0), cov) /\ RLeq(cov, Rat(1))) =>
                /\ Population(cov) > 0
                /\ Population(cov) >= I0
                /\ Population(cov) - I0 >= 0

===========================================================================
